---- MODULE Spec2Model ----
(***************************************************************************)
(* A model of dfiles' ContainerManager (src/src/dfiles/containermanager.rs) *)
(* as a state machine: one process invocation after another over a shared  *)
(* persisted configuration store.  Strings are TLA+ strings; text is built *)
(* with \o exactly where the code pushes or formats.                       *)
(***************************************************************************)
EXTENDS Integers, Sequences, FiniteSets, TLC

VARIABLES
    given,        \* the aspect vector main() passes to the constructor
    aspects,      \* self.aspects: the ordered aspect list
    pc,           \* position of the running process
    invocation,   \* number of the current process invocation
    binary,       \* result of std::env::current_exe()
    matches,      \* clap's ArgMatches of the invocation (subcommand + values)
    result,       \* the Result<()> returned by execute()
    store,        \* persisted configuration, one record per (name, profile)
    configured,   \* per (name, profile): the values the last successful config call was given
    loaded,       \* load_config has completed in this invocation
    merged,       \* the configuration cfg.merge(&cli_cfg, false) produced
    entered,      \* the operation body that was entered, if any
    asked,        \* names of the aspects whose run_args were called, in order
    engineRun,    \* the argument vectors handed to docker::run, one per call
    epArgs,       \* the args vector given to entrypoint()
    epVia,        \* how entrypoint() was reached
    epAspect,     \* entrypoint loop: index of the current aspect
    epStep,       \* entrypoint loop: index of the next step of that aspect
    sudoPath,     \* which("sudo") has resolved
    sudoArgs,     \* the accumulated sudo_args
    setupLog,     \* the privileged setup steps whose func ran, in order
    sudoCall,     \* the argument vectors given to the sudo child, one per call
    childStatus,  \* the exit status of the sudo child process
    archive,      \* the entries appended to the tar archive, in order
    archiveFile,  \* the file the archive is written to
    recipeMap,    \* generate_archive_impl's contents map, priority to text
    dockerfile,   \* the recipe text composed by generate_archive_impl
    archiveResidue, \* how far b.append got with the entry it failed on
    archiveEnd,   \* the Builder's drop wrote the whole end-of-archive marker
    engineBuild,  \* the image tags handed to docker.build_image, one per call
    buildLog,     \* the log lines of each response docker.build_image returned
    printed       \* build output printed to standard output, in order

vars == <<given, aspects, pc, invocation, binary, matches, result, store, configured,
          loaded, merged, recipeMap,
          entered, asked, engineRun, epArgs, epVia, epAspect, epStep, sudoPath,
          sudoArgs, setupLog, sudoCall, childStatus, archive, archiveFile,
          archiveResidue, archiveEnd, dockerfile, engineBuild, buildLog, printed>>

----------------------------------------------------------------------------
(* Bounds of the model *)

MaxAspects == 2        \* length of the aspect list given to the constructor
MaxInvocations == 2    \* consecutive process invocations

None == "None"
SENTINEL == "/entrypoint"
NL == "\n"

----------------------------------------------------------------------------
(* Sequence helpers *)

RECURSIVE Flatten(_)
Flatten(ss) == IF ss = <<>> THEN <<>> ELSE Head(ss) \o Flatten(Tail(ss))

RECURSIVE SeqsUpTo(_, _)
SeqsUpTo(S, n) ==
    IF n = 0 THEN {<<>>}
    ELSE LET shorter == SeqsUpTo(S, n - 1)
         IN  shorter \cup {Append(s, x) : s \in shorter, x \in S}

Contains(s, x) == \E i \in 1..Len(s) : s[i] = x

----------------------------------------------------------------------------
(* Aspects.  An aspect is a record of what its ContainerAspect methods      *)
(* return; fallible marks a run_args or func that fails when the host state *)
(* it needs is absent.                                                      *)

Snippet(o, c) == [order |-> o, content |-> c]
ContainerFile(p, c) == [container_path |-> p, contents |-> c]
EntrypointFn(d, sa, f) == [description |-> d, sudo_args |-> sa, fallible |-> f]

Aspect(n, ra, f, fns, sn, fl) ==
    [name |-> n, run_args |-> ra, fallible |-> f, entrypoint_fns |-> fns,
     dockerfile_snippets |-> sn, container_files |-> fl]

(* Debian's three snippets, in the order dockerfile_snippets returns them *)
(* (orders 0, 3, 2).  Its other methods are the trait's defaults, which   *)
(* return nothing.                                                        *)
DebianLanguagePacks ==
       "# Useful language packs\n" \o
       "RUN apt-get update && apt-get install -y --no-install-recommends \\\n" \o
       "  fonts-arphic-bkai00mp \\\n" \o
       "  fonts-arphic-bsmi00lp \\\n" \o
       "  fonts-arphic-gbsn00lp \\\n" \o
       "  fonts-arphic-gbsn00lp \\\n" \o
       "  \\\n" \o
       "  && rm -rf /var/lib/apt/lists/* \\\n" \o
       "  && rm -rf /src/*.deb"

DebianBasePackages ==
       "RUN apt-get update && apt-get install -y \\\n" \o
       "    --no-install-recommends \\\n" \o
       "    apt-utils \\\n" \o
       "    apt-transport-https \\\n" \o
       "    apt \\\n" \o
       "    bzip2 \\\n" \o
       "    ca-certificates \\\n" \o
       "    curl \\\n" \o
       "    debian-goodies \\\n" \o
       "    dirmngr \\\n" \o
       "    gnupg \\\n" \o
       "    keychain \\\n" \o
       "    lsb-release \\\n" \o
       "    locales \\\n" \o
       "    lsof \\\n" \o
       "    procps \\\n" \o
       "    sudo \\\n" \o
       "  && apt-get purge --autoremove \\\n" \o
       "  && rm -rf /var/lib/apt/lists/* \\\n" \o
       "  && rm -rf /src/*.deb "

Debian ==
    Aspect("Debian", <<>>, FALSE, <<>>,
           << Snippet(0, "FROM debian:buster"),
              Snippet(3, DebianLanguagePacks),
              Snippet(2, DebianBasePackages) >>,
           <<>>)

(* its context file is empty, and named beyond ASCII *)
Foo ==
    Aspect("Foo", <<"--foo", "bar">>, FALSE, <<>>,
           << Snippet(5, "X") >>,
           << ContainerFile("café.d/.keep", "") >>)

Net ==
    Aspect("Net", <<"--net", "host">>, TRUE, <<>>,
           << Snippet(5, "Y"), Snippet(1, "Z") >>,
           << ContainerFile("./pulse-client.conf", "ç") >>)

CurrentUser ==
    Aspect("CurrentUser", <<"-e", "USER">>, FALSE,
           << EntrypointFn("create group", <<"-g", "grp">>, TRUE),
              EntrypointFn("create user", <<"-u", "usr">>, TRUE) >>,
           << Snippet(2, "RUN groupadd"), Snippet(2, "RUN useradd") >>,
           << ContainerFile("sudoers.d//user", "s") >>)

(* an aspect whose context file is named by an absolute path *)
Hosts ==
    Aspect("Hosts", <<>>, FALSE, <<>>, <<>>,
           << ContainerFile("/etc/hosts", "h") >>)

AspectCatalogue == {Foo, Net, CurrentUser, Hosts}

ProfileAspect(name, container_paths) ==
    Aspect("Profile", Flatten([i \in 1..Len(container_paths) |->
                                 <<"-v", name \o ":" \o container_paths[i]>>]),
           FALSE, <<>>, <<>>, <<>>)

LocaleAspect(l) ==
    Aspect("Locale", <<"-e", "LANG=" \o l>>, FALSE, <<>>,
           << Snippet(4, "ENV LANG " \o l) >>, <<>>)

MountsAspect(ms) ==
    Aspect("Mounts", Flatten([i \in 1..Len(ms) |-> <<"-v", ms[i]>>]),
           FALSE, <<>>, <<>>, <<>>)

(* The manager's fields other than the aspect list *)

AppName == "app"
Tags == <<"app:v1", "app:latest">>
ContainerPaths == <<>>
TrailingArgs == <<"cmd", "--flag">>

default_debian(asps) == <<Debian>> \o asps

image == Tags[1]


----------------------------------------------------------------------------
(* Results: Ok(v) and Err(kind) *)

Ok(v) == [err |-> None, val |-> v]
Err(kind) == [err |-> kind, val |-> <<>>]

----------------------------------------------------------------------------
(* run: the flag collection loop and the hand-over to docker::run *)

(* one call of std::env::current_exe() inside run's loop: the path, or an  *)
(* io::Error, which ? converts with #[from]                                *)
CurrentExe(bin, exeOk) ==
    IF exeOk THEN Ok(bin) ELSE Err("CouldNotFindCurrentBinary")

EntrypointFlags(bin) ==
    <<"-v", bin \o ":" \o "/entrypoint", "--entrypoint", "/entrypoint">>

AspectRunArgs(aspect, hostOk) ==
    IF aspect.fallible /\ ~hostOk THEN Err("MissingDirectory")
    ELSE Ok(aspect.run_args)

(* a variant of InjectEntrypoint: the aspect's setup steps are not looked at *)
InjectEntrypoint_Always(aspect, has_entrypoint) == ~has_entrypoint

InjectEntrypoint(aspect, has_entrypoint) ==
    Len(aspect.entrypoint_fns) > 0 /\ ~has_entrypoint

HasEntrypointAfterInject == FALSE

(* exes: the answers of the calls of current_exe(), in call order;        *)
(* hostOks[i]: whether the host has what the run_args of aspect i needs    *)
RECURSIVE RunLoop(_, _, _, _, _, _, _)
RunLoop(asps, i, args, has_entrypoint, exes, hostOks, log) ==
    IF i > Len(asps) THEN [err |-> None, args |-> args, asked |-> log]
    ELSE LET aspect == asps[i]
             inject == InjectEntrypoint(aspect, has_entrypoint)
             he     == IF inject THEN HasEntrypointAfterInject ELSE has_entrypoint
             exe    == Head(exes)
             exes1  == IF inject THEN Tail(exes) ELSE exes
             args1  == IF inject THEN args \o EntrypointFlags(exe.val) ELSE args
             ra     == AspectRunArgs(aspect, hostOks[i])
             log1   == Append(log, aspect.name)
         IN  IF inject /\ exe.err # None
             THEN [err |-> exe.err, args |-> args, asked |-> log]
             ELSE IF ra.err # None
                  THEN [err |-> ra.err, args |-> args1, asked |-> log1]
                  ELSE RunLoop(asps, i + 1, args1 \o ra.val, he, exes1, hostOks, log1)

(* a variant of RunTail: the trailing arguments before the image *)
RunTail_ArgsFirst(args) == (args \o TrailingArgs) \o <<image>>

RunTail(args) == Append(args, image) \o TrailingArgs

(* a variant of RunResult: the flags collected so far are handed over even *)
(* when an aspect failed                                                   *)
RunResult_PartialLaunch(asps, exes, hostOks) ==
    LET loop == RunLoop(asps, 1, <<"--rm">>, FALSE, exes, hostOks, <<>>)
    IN  [err |-> loop.err, engine |-> <<RunTail(loop.args)>>, asked |-> loop.asked]

RunResult(asps, exes, hostOks) ==
    LET loop == RunLoop(asps, 1, <<"--rm">>, FALSE, exes, hostOks, <<>>)
    IN  IF loop.err # None
        THEN [err |-> loop.err, engine |-> <<>>, asked |-> loop.asked]
        ELSE [err |-> None, engine |-> <<RunTail(loop.args)>>, asked |-> loop.asked]

(* what the host can answer during one run: one answer for each call of    *)
(* current_exe() (at most one call per aspect), one for each run_args      *)
(* (only the aspects with setup steps call current_exe, only a fallible    *)
(* run_args can fail: the other answers are fixed)                         *)
ExeAnswers(asps, bin) ==
    LET calls == Cardinality({i \in 1..Len(asps) : Len(asps[i].entrypoint_fns) > 0})
    IN  {[k \in 1..Len(asps) |-> CurrentExe(bin, k > calls \/ oks[k])] :
            oks \in [1..calls -> BOOLEAN]}

HostAnswers(asps) ==
    LET fallible == {i \in 1..Len(asps) : asps[i].fallible}
    IN  {[i \in 1..Len(asps) |-> i \notin fallible \/ h[i]] :
            h \in [fallible -> BOOLEAN]}

----------------------------------------------------------------------------
(* generate_archive_impl: the recipe map, the archive entries, the recipe  *)
(* text.  contents is the BTreeMap<u8, String>, a function on its keys.    *)

(* a variant of InsertSnippet: a later snippet goes in front *)
InsertSnippet_Prepend(contents, snippet) ==
    IF snippet.order \in DOMAIN contents
    THEN [contents EXCEPT ![snippet.order] = snippet.content \o NL \o @]
    ELSE (snippet.order :> snippet.content) @@ contents

InsertSnippet(contents, snippet) ==
    IF snippet.order \in DOMAIN contents
    THEN [contents EXCEPT ![snippet.order] = @ \o NL \o snippet.content]
    ELSE (snippet.order :> snippet.content) @@ contents

RECURSIVE InsertSnippets(_, _)
InsertSnippets(contents, snippets) ==
    IF snippets = <<>> THEN contents
    ELSE InsertSnippets(InsertSnippet(contents, Head(snippets)), Tail(snippets))

EmptyMap == [k \in {} |-> ""]

(* a variant of MinKey: iteration from the largest key down *)
MinKey_Largest(keys) == CHOOSE k \in keys : \A j \in keys : k >= j

MinKey(keys) == CHOOSE k \in keys : \A j \in keys : k <= j

RECURSIVE ValuesFrom(_, _)
ValuesFrom(contents, keys) ==
    IF keys = {} THEN <<>>
    ELSE LET k == MinKey(keys)
         IN  <<contents[k]>> \o ValuesFrom(contents, keys \ {k})

Values(contents) == ValuesFrom(contents, DOMAIN contents)

RECURSIVE DockerfileContents(_)
DockerfileContents(values) ==
    IF values = <<>> THEN ""
    ELSE Head(values) \o NL \o NL \o DockerfileContents(Tail(values))

(* header.set_path(name): the name split at "/".  cuts: the places of the *)
(* separators, and one before the name and one after it                    *)
Slashes(s) == {i \in 1..Len(s) : SubSeq(s, i, i) = "/"}

Cut(cuts, k) == CHOOSE c \in cuts : Cardinality({d \in cuts : d < c}) = k - 1

Components(s, cuts) ==
    [k \in 1..(Cardinality(cuts) - 1) |->
        SubSeq(s, Cut(cuts, k) + 1, Cut(cuts, k + 1) - 1)]

SplitPath(s) == Components(s, {0, Len(s) + 1} \cup Slashes(s))

RECURSIVE JoinPath(_)
JoinPath(comps) ==
    IF comps = <<>> THEN ""
    ELSE IF Len(comps) = 1 THEN Head(comps)
         ELSE Head(comps) \o "/" \o JoinPath(Tail(comps))

(* a component that set_path writes: neither empty nor "." *)
Named(c) == c \notin {"", "."}

(* the components written: "." alone when the path is only "." *)
Emitted(name, normal) ==
    IF normal = <<>> /\ name # "" /\ Head(name) = "." THEN <<".">> ELSE normal

(* the bytes written to the header's name field; a trailing "/" stays *)
Written(name, emitted) ==
    JoinPath(emitted) \o
    (IF name # "" /\ SubSeq(name, Len(name), Len(name)) = "/" THEN "/" ELSE "")

(* str::len and the header fields count bytes of UTF-8, not characters.    *)
(* A string here holds UTF-16 units, and of the units beyond ASCII only    *)
(* those whose low byte is 128 or more can be written in one; the three    *)
(* alphabets list every unit a string can hold that is not encoded in      *)
(* three bytes.                                                            *)

(* U+0001..U+007F: one byte.  U+0000 and the grave accent are left out:  *)
(* the one is kept out of this text, the other cannot be written in a      *)
(* string.                                                                 *)
AsciiAlphabet == "\t\n\f\r !\"#$%&'()*+,-./0123456789:;<=>?@ABCDEFGHIJKLMNOPQRSTUVWXYZ[\\]^_abcdefghijklmnopqrstuvwxyz{|}~"

AsciiChars == {SubSeq(AsciiAlphabet, i, i) : i \in 1..Len(AsciiAlphabet)}

(* U+0080..U+07FF: two bytes *)
TwoByteAlphabet == " ¡¢£¤¥¦§¨©ª«¬­®¯°±²³´µ¶·¸¹º»¼½¾¿ÀÁÂÃÄÅÆÇÈÉÊËÌÍÎÏÐÑÒÓÔÕÖ×ØÙÚÛÜÝÞßàáâãäåæçèéêëìíîïðñòóôõö÷øùúûüýþÿƀƁƂƃƄƅƆƇƈƉƊƋƌƍƎƏƐƑƒƓƔƕƖƗƘƙƚƛƜƝƞƟƠơƢƣƤƥƦƧƨƩƪƫƬƭƮƯưƱƲƳƴƵƶƷƸƹƺƻƼƽƾƿǀǁǂǃǄǅǆǇǈǉǊǋǌǍǎǏǐǑǒǓǔǕǖǗǘǙǚǛǜǝǞǟǠǡǢǣǤǥǦǧǨǩǪǫǬǭǮǯǰǱǲǳǴǵǶǷǸǹǺǻǼǽǾǿʀʁʂʃʄʅʆʇʈʉʊʋʌʍʎʏʐʑʒʓʔʕʖʗʘʙʚʛʜʝʞʟʠʡʢʣʤʥʦʧʨʩʪʫʬʭʮʯʰʱʲʳʴʵʶʷʸʹʺʻʼʽʾʿˀˁ˂˃˄˅ˆˇˈˉˊˋˌˍˎˏːˑ˒˓˔˕˖˗˘˙˚˛˜˝˞˟ˠˡˢˣˤ˥˦˧˨˩˪˫ˬ˭ˮ˯˰˱˲˳˴˵˶˷˸˹˺˻˼˽˾˿΀΁΂΃΄΅Ά·ΈΉΊ΋Ό΍ΎΏΐΑΒΓΔΕΖΗΘΙΚΛΜΝΞΟΠΡ΢ΣΤΥΦΧΨΩΪΫάέήίΰαβγδεζηθικλμνξοπρςστυφχψωϊϋόύώϏϐϑϒϓϔϕϖϗϘϙϚϛϜϝϞϟϠϡϢϣϤϥϦϧϨϩϪϫϬϭϮϯϰϱϲϳϴϵ϶ϷϸϹϺϻϼϽϾϿҀҁ҂҃҄҅҆҇҈҉ҊҋҌҍҎҏҐґҒғҔҕҖҗҘҙҚқҜҝҞҟҠҡҢңҤҥҦҧҨҩҪҫҬҭҮүҰұҲҳҴҵҶҷҸҹҺһҼҽҾҿӀӁӂӃӄӅӆӇӈӉӊӋӌӍӎӏӐӑӒӓӔӕӖӗӘәӚӛӜӝӞӟӠӡӢӣӤӥӦӧӨөӪӫӬӭӮӯӰӱӲӳӴӵӶӷӸӹӺӻӼӽӾӿրցւփքօֆևֈ։֊֋֌֍֎֏֐ְֱֲֳִֵֶַָֹֺֻּֽ֑֖֛֢֣֤֥֦֧֪֚֭֮֒֓֔֕֗֘֙֜֝֞֟֠֡֨֩֫֬֯־ֿ׀ׁׂ׃ׅׄ׆ׇ׈׉׊׋׌׍׎׏אבגדהוזחטיךכלםמןנסעףפץצקרשת׫׬׭׮ׯװױײ׳״׵׶׷׸׹׺׻׼׽׾׿ڀځڂڃڄڅچڇڈډڊڋڌڍڎڏڐڑڒړڔڕږڗژڙښڛڜڝڞڟڠڡڢڣڤڥڦڧڨکڪګڬڭڮگڰڱڲڳڴڵڶڷڸڹںڻڼڽھڿۀہۂۃۄۅۆۇۈۉۊۋیۍێۏېۑےۓ۔ەۖۗۘۙۚۛۜ۝۞ۣ۟۠ۡۢۤۥۦۧۨ۩۪ۭ۫۬ۮۯ۰۱۲۳۴۵۶۷۸۹ۺۻۼ۽۾ۿހށނރބޅކއވމފދތލގޏސޑޒޓޔޕޖޗޘޙޚޛޜޝޞޟޠޡޢޣޤޥަާިީުޫެޭޮޯްޱ޲޳޴޵޶޷޸޹޺޻޼޽޾޿߀߁߂߃߄߅߆߇߈߉ߊߋߌߍߎߏߐߑߒߓߔߕߖߗߘߙߚߛߜߝߞߟߠߡߢߣߤߥߦߧߨߩߪ߲߫߬߭߮߯߰߱߳ߴߵ߶߷߸߹ߺ߻߼߽߾߿"

TwoByteChars == {SubSeq(TwoByteAlphabet, i, i) : i \in 1..Len(TwoByteAlphabet)}

(* a character beyond U+FFFF is four bytes, and two units here: each unit *)
(* stands for two of them                                                  *)
FourByteAlphabet == "𰂀𰒁𰢂𰲃𱂄𱒅𱢆𱲇𲂈𲒉𲢊𲲋𳂌𳒍𳢎𳲏𴂐𴒑𴢒𴲓𵂔𵒕𵢖𵲗𶂘𶒙𶢚𶲛𷂜𷒝𷢞𷲟𸂠𸒡𸢢𸲣𹂤𹒥𹢦𹲧𺂨𺒩𺢪𺲫𻂬𻒭𻢮𻲯𼂰𼒱𼢲𼲳𽂴𽒵𽢶𽲷𾂸𾒹𾢺𾲻𿂼𿒽𿢾𿲿񀃀񀓁񀣂񀳃񁃄񁓅񁣆񁳇񂃈񂓉񂣊񂳋񃃌񃓍񃣎񃳏񄃐񄓑񄣒񄳓񅃔񅓕񅣖񅳗񆃘񆓙񆣚񆳛񇃜񇓝񇣞񇳟񈃠񈓡񈣢񈳣񉃤񉓥񉣦񉳧񊃨񊓩񊣪񊳫񋃬񋓭񋣮񋳯񌃰񌓱񌣲񌳳񍃴񍓵񍣶񍳷񎃸񎓹񎣺񎳻񏃼񏓽񏣾񏳿񰆀񰖁񰦂񰶃񱆄񱖅񱦆񱶇񲆈񲖉񲦊񲶋񳆌񳖍񳦎񳶏񴆐񴖑񴦒񴶓񵆔񵖕񵦖񵶗񶆘񶖙񶦚񶶛񷆜񷖝񷦞񷶟񸆠񸖡񸦢񸶣񹆤񹖥񹦦񹶧񺆨񺖩񺦪񺶫񻆬񻖭񻦮񻶯񼆰񼖱񼦲񼶳񽆴񽖵񽦶񽶷񾆸񾖹񾦺񾶻񿆼񿖽񿦾񿶿򀇀򀗁򀧂򀷃򁇄򁗅򁧆򁷇򂇈򂗉򂧊򂷋򃇌򃗍򃧎򃷏򄇐򄗑򄧒򄷓򅇔򅗕򅧖򅷗򆇘򆗙򆧚򆷛򇇜򇗝򇧞򇷟򈇠򈗡򈧢򈷣򉇤򉗥򉧦򉷧򊇨򊗩򊧪򊷫򋇬򋗭򋧮򋷯򌇰򌗱򌧲򌷳򍇴򍗵򍧶򍷷򎇸򎗹򎧺򎷻򏇼򏗽򏧾򏷿򰊀򰚁򰪂򰺃򱊄򱚅򱪆򱺇򲊈򲚉򲪊򲺋򳊌򳚍򳪎򳺏򴊐򴚑򴪒򴺓򵊔򵚕򵪖򵺗򶊘򶚙򶪚򶺛򷊜򷚝򷪞򷺟򸊠򸚡򸪢򸺣򹊤򹚥򹪦򹺧򺊨򺚩򺪪򺺫򻊬򻚭򻪮򻺯򼊰򼚱򼪲򼺳򽊴򽚵򽪶򽺷򾊸򾚹򾪺򾺻򿊼򿚽򿪾򿺿󀋀󀛁󀫂󀻃󁋄󁛅󁫆󁻇󂋈󂛉󂫊󂻋󃋌󃛍󃫎󃻏󄋐󄛑󄫒󄻓󅋔󅛕󅫖󅻗󆋘󆛙󆫚󆻛󇋜󇛝󇫞󇻟󈋠󈛡󈫢󈻣󉋤󉛥󉫦󉻧󊋨󊛩󊫪󊻫󋋬󋛭󋫮󋻯󌋰󌛱󌫲󌻳󍋴󍛵󍫶󍻷󎋸󎛹󎫺󎻻󏋼󏛽󏫾󏻿󰎀󰞁󰮂󰾃󱎄󱞅󱮆󱾇󲎈󲞉󲮊󲾋󳎌󳞍󳮎󳾏󴎐󴞑󴮒󴾓󵎔󵞕󵮖󵾗󶎘󶞙󶮚󶾛󷎜󷞝󷮞󷾟󸎠󸞡󸮢󸾣󹎤󹞥󹮦󹾧󺎨󺞩󺮪󺾫󻎬󻞭󻮮󻾯󼎰󼞱󼮲󼾳󽎴󽞵󽮶󽾷󾎸󾞹󾮺󾾻󿎼󿞽󿮾󿾿􀏀􀟁􀯂􀿃􁏄􁟅􁯆􁿇􂏈􂟉􂯊􂿋􃏌􃟍􃯎􃿏􄏐􄟑􄯒􄿓􅏔􅟕􅯖􅿗􆏘􆟙􆯚􆿛􇏜􇟝􇯞􇿟􈏠􈟡􈯢􈿣􉏤􉟥􉯦􉿧􊏨􊟩􊯪􊿫􋏬􋟭􋯮􋿯􌏰􌟱􌯲􌿳􍏴􍟵􍯶􍿷􎏸􎟹􎯺􎿻􏏼􏟽􏯾􏿿"

SurrogateUnits == {SubSeq(FourByteAlphabet, i, i) : i \in 1..Len(FourByteAlphabet)}

ShortUnits == TwoByteChars \cup SurrogateUnits

(* one byte for every unit, a second for those at wide (beyond ASCII), a   *)
(* third for the rest of U+0800..U+FFFF                                    *)
EncodedLen(s, wide) ==
    Len(s) + Cardinality(wide)
    + Cardinality({i \in wide : SubSeq(s, i, i) \notin ShortUnits})

ByteLen(s) ==
    EncodedLen(s, {i \in 1..Len(s) : SubSeq(s, i, i) \notin AsciiChars})

(* the path must have a component, be relative, be without "..", and fit  *)
(* the header's 100-byte name field                                        *)
CheckedPath(name, normal, path) ==
    IF \/ name = ""
       \/ Head(name) = "/"
       \/ \E k \in 1..Len(normal) : normal[k] = ".."
       \/ ByteLen(path) > 100
    THEN Err("FailedToAddFileToArchive")
    ELSE Ok(path)

NormalisedPath(name, normal) ==
    CheckedPath(name, normal, Written(name, Emitted(name, normal)))

(* header.set_path(name).map_err(FailedToAddFileToArchive) *)
SetPath(name) ==
    NormalisedPath(name, SelectSeq(SplitPath(name), Named))

(* the entry b.append stores: the header's path and the data *)
Entry(name, contents) == [path |-> SetPath(name).val, contents |-> contents]

(* The I/O faults of one run: the ordinal of the append that fails (0:     *)
(* none), the write of b.append that fails (the header's, the data's, the  *)
(* padding's), and whether the write made when the Builder is dropped      *)
(* succeeds.                                                               *)
NoFault == [at |-> 0, stage |-> "none", finishOk |-> TRUE]

(* how far the append that failed got: header and data are whole or cut    *)
Residue(path, contents, stage) ==
    [path |-> path, size |-> ByteLen(contents),
     header |-> (stage \in {"data", "padding"}), data |-> (stage = "padding")]

(* b.append pads the data to a multiple of 512 bytes, with no write when   *)
(* nothing is missing                                                      *)
PaddingWritten(contents) == ByteLen(contents) % 512 # 0

(* the write of this append that fails, if one does: empty contents make  *)
(* no data write                                                           *)
FailedWrite(contents, io) ==
    IF \/ io = "data" /\ contents = ""
       \/ io = "padding" /\ ~PaddingWritten(contents)
    THEN "ok"
    ELSE io

(* b.append(&header, contents) after set_path gave p; io: "ok", or the     *)
(* write that fails.  An entry is in the file once its header and its      *)
(* data are.                                                               *)
AppendEntry(entries, p, contents, io) ==
    IF p.err # None
    THEN [err |-> p.err, entries |-> entries, residue |-> <<>>]
    ELSE IF io = "ok"
         THEN [err |-> None,
               entries |-> Append(entries, [path |-> p.val, contents |-> contents]),
               residue |-> <<>>]
         ELSE [err |-> "FailedToAddFileToArchive",
               entries |-> IF io = "padding"
                           THEN Append(entries, [path |-> p.val, contents |-> contents])
                           ELSE entries,
               residue |-> <<Residue(p.val, contents, io)>>]

(* add_file_to_archive(b, name, contents) *)
AddFileToArchive(entries, name, contents, io) ==
    AppendEntry(entries, SetPath(name), contents, FailedWrite(contents, io))

(* the outcome of the I/O of the next append, the entries written so far *)
NextIo(entries, fault) ==
    IF Len(entries) + 1 = fault.at THEN fault.stage ELSE "ok"

RECURSIVE AddFiles(_, _, _)
AddFiles(files, entries, fault) ==
    IF files = <<>> THEN [err |-> None, entries |-> entries, residue |-> <<>>]
    ELSE LET added == AddFileToArchive(entries, Head(files).container_path,
                                       Head(files).contents,
                                       NextIo(entries, fault))
         IN  IF added.err # None
             THEN added
             ELSE AddFiles(Tail(files), added.entries, fault)

RECURSIVE ArchiveLoop(_, _, _, _, _)
ArchiveLoop(asps, i, contents, entries, fault) ==
    IF i > Len(asps)
    THEN [err |-> None, contents |-> contents, entries |-> entries, residue |-> <<>>]
    ELSE LET c1 == InsertSnippets(contents, asps[i].dockerfile_snippets)
             fs == AddFiles(asps[i].container_files, entries, fault)
         IN  IF fs.err # None
             THEN [err |-> fs.err, contents |-> c1, entries |-> fs.entries,
                   residue |-> fs.residue]
             ELSE ArchiveLoop(asps, i + 1, c1, fs.entries, fault)

(* a variant of GenerateArchiveImpl: the Dockerfile entry is put first *)
GenerateArchiveImpl_DockerfileFirst(asps, fault) ==
    LET loop == ArchiveLoop(asps, 1, EmptyMap, <<>>, fault)
        text == DockerfileContents(Values(loop.contents))
    IN  IF loop.err # None
        THEN [err |-> loop.err,
              entries |-> <<Entry("Dockerfile", text)>> \o loop.entries,
              residue |-> loop.residue, finished |-> fault.finishOk,
              contents |-> loop.contents, dockerfile |-> ""]
        ELSE [err |-> None,
              entries |-> <<Entry("Dockerfile", text)>> \o loop.entries,
              residue |-> <<>>, finished |-> fault.finishOk,
              contents |-> loop.contents, dockerfile |-> text]

(* finished: the Builder is dropped when the function returns, through ?   *)
(* or at its end, and its drop writes the end-of-archive marker (1024 zero *)
(* bytes), whose io::Result is discarded.                                  *)
GenerateArchiveImpl(asps, fault) ==
    LET loop  == ArchiveLoop(asps, 1, EmptyMap, <<>>, fault)
        text  == DockerfileContents(Values(loop.contents))
        added == AddFileToArchive(loop.entries, "Dockerfile", text,
                                  NextIo(loop.entries, fault))
    IN  IF loop.err # None
        THEN [err |-> loop.err, entries |-> loop.entries, residue |-> loop.residue,
              finished |-> fault.finishOk,
              contents |-> loop.contents, dockerfile |-> ""]
        ELSE [err |-> added.err, entries |-> added.entries, residue |-> added.residue,
              finished |-> fault.finishOk,
              contents |-> loop.contents, dockerfile |-> text]

NumAppends(asps) ==
    Len(Flatten([i \in 1..Len(asps) |-> asps[i].container_files])) + 1

Faults(asps) ==
    {[at |-> 0, stage |-> "none", finishOk |-> f] : f \in BOOLEAN} \cup
    {[at |-> k, stage |-> st, finishOk |-> f] :
        k \in 1..NumAppends(asps), st \in {"header", "data", "padding"},
        f \in BOOLEAN}

(* build: the engine's log lines; a line is read or not, parses or not *)

LogLine(k, s) == [kind |-> k, stream |-> s]

BuildLogs ==
    { <<>>,
      << LogLine("ok", "Step 1/2\n"), LogLine("unparseable", "{"),
         LogLine("ok", "Step 2/2\n") >>,
      << LogLine("unreadable", ""), LogLine("ok", "done\n") >> }

(* a variant of PrintBuildOutput: printing stops at the first bad line *)
RECURSIVE PrintBuildOutput_StopAtBadLine(_)
PrintBuildOutput_StopAtBadLine(lines) ==
    IF lines = <<>> THEN <<>>
    ELSE IF Head(lines).kind = "ok"
         THEN <<Head(lines).stream>> \o PrintBuildOutput_StopAtBadLine(Tail(lines))
         ELSE <<>>

RECURSIVE PrintBuildOutput(_)
PrintBuildOutput(lines) ==
    IF lines = <<>> THEN <<>>
    ELSE IF Head(lines).kind = "ok"
         THEN <<Head(lines).stream>> \o PrintBuildOutput(Tail(lines))
         ELSE PrintBuildOutput(Tail(lines))

----------------------------------------------------------------------------
(* The configuration layer (config::Config): load, try_from, merge, save,  *)
(* get_aspects.  A configuration holds a locale and a list of mounts.      *)

EmptyCfg == [locale |-> None, mounts |-> <<>>]
ValidLocales == {"en_US", "fr_FR"}
Profiles == {None, "work"}

Key(name, profile) == <<name, profile>>
StoreKeys == {Key(AppName, p) : p \in Profiles}

TryFrom(m) ==
    IF m.locale \in ValidLocales \cup {None}
    THEN Ok([locale |-> m.locale, mounts |-> m.mounts])
    ELSE Err("InvalidLocale")

ConfigLoad(st, name, profile, ioOk) ==
    IF ~ioOk THEN Err("FailedToLoadConfig")
    ELSE IF st[Key(name, profile)] = <<>> THEN Ok(EmptyCfg)
         ELSE Ok(st[Key(name, profile)][1])

Union(v, p) == v \o SelectSeq(p, LAMBDA x : ~Contains(v, x))

Merge(self, other, overwrite) ==
    [locale |-> IF other.locale # None THEN other.locale ELSE self.locale,
     mounts |-> Union(other.mounts, self.mounts)]

GetAspects(cfg) ==
    (IF cfg.locale # None THEN <<LocaleAspect(cfg.locale)>> ELSE <<>>)
    \o (IF cfg.mounts # <<>> THEN <<MountsAspect(cfg.mounts)>> ELSE <<>>)

ConfigSave(st, cfg, name, profile, ioOk) ==
    IF ~ioOk THEN [err |-> "FailedToSaveConfig", store |-> st]
    ELSE [err |-> None, store |-> [st EXCEPT ![Key(name, profile)] = <<cfg>>]]

(* profile = matches.value_of("profile") when it occurs, else None *)
ProfileOf(m) == m.profile

(* a variant of LoadConfig: the persisted values win over the CLI's *)
LoadConfig_PersistedWins(asps, m, st, ioOk) ==
    LET cfg == ConfigLoad(st, AppName, ProfileOf(m), ioOk)
        cli == TryFrom(m)
    IN  IF cfg.err # None
        THEN [err |-> cfg.err, aspects |-> asps, merged |-> <<>>]
        ELSE IF cli.err # None
             THEN [err |-> cli.err, aspects |-> asps, merged |-> <<>>]
             ELSE LET mg == Merge(cli.val, cfg.val, FALSE)
                  IN  [err |-> None, aspects |-> asps \o GetAspects(mg),
                       merged |-> <<mg>>]

(* a variant of LoadConfig: the record of the default profile is loaded *)
LoadConfig_DefaultProfile(asps, m, st, ioOk) ==
    LET cfg == ConfigLoad(st, AppName, None, ioOk)
        cli == TryFrom(m)
    IN  IF cfg.err # None
        THEN [err |-> cfg.err, aspects |-> asps, merged |-> <<>>]
        ELSE IF cli.err # None
             THEN [err |-> cli.err, aspects |-> asps, merged |-> <<>>]
             ELSE LET mg == Merge(cfg.val, cli.val, FALSE)
                  IN  [err |-> None, aspects |-> asps \o GetAspects(mg),
                       merged |-> <<mg>>]

LoadConfig(asps, m, st, ioOk) ==
    LET cfg == ConfigLoad(st, AppName, ProfileOf(m), ioOk)
        cli == TryFrom(m)
    IN  IF cfg.err # None
        THEN [err |-> cfg.err, aspects |-> asps, merged |-> <<>>]
        ELSE IF cli.err # None
             THEN [err |-> cli.err, aspects |-> asps, merged |-> <<>>]
             ELSE LET mg == Merge(cfg.val, cli.val, FALSE)
                  IN  [err |-> None, aspects |-> asps \o GetAspects(mg),
                       merged |-> <<mg>>]

ConfigResult(m, st, ioOk) ==
    LET cfg == TryFrom(m)
    IN  IF cfg.err # None THEN [err |-> cfg.err, store |-> st]
        ELSE ConfigSave(st, cfg.val, AppName, ProfileOf(m), ioOk)

----------------------------------------------------------------------------
(* What clap can hand back: the subcommand and the values given to it.     *)
(* run and config take the configuration options; entrypoint requires at   *)
(* least one command word; the other subcommands take nothing.             *)

Matches(sc, pr, lo, mo, co) ==
    [subc |-> sc, profile |-> pr, locale |-> lo, mounts |-> mo, command |-> co]

NoMatches == Matches(None, None, None, <<>>, <<>>)

CliValues ==
    { [locale |-> None, mounts |-> <<>>],
      [locale |-> None, mounts |-> <<"/a:/a">>],
      [locale |-> "en_US", mounts |-> <<"/a:/a">>],
      [locale |-> "fr_FR", mounts |-> <<"/b:/b", "/a:/a">>],
      [locale |-> "bogus", mounts |-> <<>>] }

Commands == { <<"ls">>, <<"ls", "-l">> }

MatchesSet ==
    { Matches(sc, pr, v.locale, v.mounts, <<>>) :
        sc \in {"run", "config"}, pr \in Profiles, v \in CliValues }
    \cup { Matches(sc, None, None, <<>>, <<>>) : sc \in {"build", "generate-archive"} }
    \cup { Matches("entrypoint", None, None, <<>>, co) : co \in Commands }
    \cup { NoMatches }

BinaryPaths == { SENTINEL, "/usr/bin/app" }
Argvs == { <<SENTINEL>>, <<SENTINEL, "ls">>, <<SENTINEL, "ls", "-l">> }
ExitStatuses == { 0, 1 }

----------------------------------------------------------------------------
(* The state machine *)

cfgVars == <<loaded, merged>>
runVars == <<asked, engineRun>>
epVars == <<epArgs, epVia, epAspect, epStep, sudoPath, sudoArgs, setupLog,
            sudoCall, childStatus>>
buildVars == <<archive, archiveFile, archiveResidue, archiveEnd, recipeMap, dockerfile,
               engineBuild,
               buildLog,
               printed>>

FreshProcess ==
    /\ pc = "start"
    /\ binary = None
    /\ matches = NoMatches
    /\ result = None
    /\ loaded = FALSE
    /\ merged = <<>>
    /\ entered = None
    /\ asked = <<>>
    /\ engineRun = <<>>
    /\ epArgs = <<>>
    /\ epVia = None
    /\ epAspect = 0
    /\ epStep = 0
    /\ sudoPath = None
    /\ sudoArgs = <<>>
    /\ setupLog = <<>>
    /\ sudoCall = <<>>
    /\ childStatus = <<>>
    /\ archive = <<>>
    /\ archiveFile = None
    /\ recipeMap = EmptyMap
    /\ dockerfile = ""
    /\ archiveResidue = <<>>
    /\ archiveEnd = FALSE
    /\ engineBuild = <<>>
    /\ buildLog = <<>>
    /\ printed = <<>>

Init ==
    /\ given \in SeqsUpTo(AspectCatalogue, MaxAspects)
    /\ aspects = default_debian(given)
    /\ invocation = 1
    /\ store = [k \in StoreKeys |-> <<>>]
    /\ configured = [k \in StoreKeys |-> <<>>]
    /\ FreshProcess

Finish(r) == /\ result' = r
             /\ pc' = "done"

(* execute: the sentinel test on the running binary's path *)
Execute ==
    /\ pc = "start"
    /\ \E exe \in BinaryPaths \cup {None} :
         /\ binary' = exe
         /\ IF exe = None
            THEN /\ Finish("CouldNotFindCurrentBinary")
                 /\ UNCHANGED <<epArgs, epVia>>
            ELSE IF exe = SENTINEL
                 THEN /\ \E argv \in Argvs : epArgs' = argv
                      /\ epVia' = "sentinel"
                      /\ pc' = "ep_which"
                      /\ UNCHANGED result
                 ELSE /\ pc' = "clap"
                      /\ UNCHANGED <<result, epArgs, epVia>>
    /\ UNCHANGED <<given, aspects, invocation, matches, store, configured, cfgVars, entered,
                   runVars, epAspect, epStep, sudoPath, sudoArgs, setupLog,
                   sudoCall, childStatus, buildVars>>

(* execute_clap up to app.get_matches(): the Profile aspect goes first *)
ExecuteClapParse ==
    /\ pc = "clap"
    /\ aspects' = <<ProfileAspect(AppName, ContainerPaths)>> \o aspects
    /\ \E m \in MatchesSet : matches' = m
    /\ pc' = "parsed"
    /\ UNCHANGED <<given, invocation, binary, result, store, configured, cfgVars, entered,
                   runVars, epVars, buildVars>>

(* a variant of ExecuteClapLoad: dispatch without loading *)
ExecuteClapLoad_Skip ==
    /\ pc = "parsed"
    /\ pc' = "dispatch"
    /\ UNCHANGED <<given, aspects, invocation, binary, matches, result, store,
                   configured, cfgVars, entered, runVars, epVars, buildVars>>

(* a variant of ExecuteClapLoad: load_config is called with or without a   *)
(* subcommand                                                              *)
ExecuteClapLoad_Always ==
    /\ pc = "parsed"
    /\ \E ioOk \in BOOLEAN :
         LET r == LoadConfig(aspects, matches, store, ioOk)
         IN  IF r.err # None
             THEN /\ Finish(r.err)
                  /\ UNCHANGED <<aspects, cfgVars>>
             ELSE /\ aspects' = r.aspects
                  /\ merged' = r.merged
                  /\ loaded' = TRUE
                  /\ pc' = "dispatch"
                  /\ UNCHANGED result
    /\ UNCHANGED <<given, invocation, binary, matches, store, configured, entered,
                   runVars, epVars, buildVars>>

(* execute_clap: if let Some(v) = subm { self.load_config(&v)?; } *)
ExecuteClapLoad ==
    /\ pc = "parsed"
    /\ IF matches.subc = None
       THEN /\ pc' = "dispatch"
            /\ UNCHANGED <<aspects, result, cfgVars>>
       ELSE \E ioOk \in BOOLEAN :
              LET r == LoadConfig(aspects, matches, store, ioOk)
              IN  IF r.err # None
                  THEN /\ Finish(r.err)
                       /\ UNCHANGED <<aspects, cfgVars>>
                  ELSE /\ aspects' = r.aspects
                       /\ merged' = r.merged
                       /\ loaded' = TRUE
                       /\ pc' = "dispatch"
                       /\ UNCHANGED result
    /\ UNCHANGED <<given, invocation, binary, matches, store, configured, entered, runVars,
                   epVars, buildVars>>

Run ==
    /\ pc = "dispatch"
    /\ matches.subc = "run"
    /\ entered' = "run"
    /\ \E exes \in ExeAnswers(aspects, binary), hostOks \in HostAnswers(aspects) :
         LET r == RunResult(aspects, exes, hostOks)
         IN  /\ asked' = r.asked
             /\ engineRun' = r.engine
             /\ Finish(IF r.err # None THEN r.err ELSE "Ok")
    /\ UNCHANGED <<given, aspects, invocation, binary, matches, store, configured, cfgVars,
                   epVars, buildVars>>

Build ==
    /\ pc = "dispatch"
    /\ matches.subc = "build"
    /\ entered' = "build"
    /\ \E tmpOk \in BOOLEAN :
         IF ~tmpOk
         THEN /\ Finish("CouldNotFindCurrentBinary")
              /\ UNCHANGED buildVars
         ELSE \E fault \in Faults(aspects) :
              LET r == GenerateArchiveImpl(aspects, fault)
              IN  /\ archiveFile' = "tempfile"
                  /\ archive' = r.entries
                  /\ archiveResidue' = r.residue
                  /\ archiveEnd' = r.finished
                  /\ recipeMap' = r.contents
                  /\ dockerfile' = r.dockerfile
                  /\ IF r.err # None
                     THEN /\ Finish(r.err)
                          /\ UNCHANGED <<engineBuild, buildLog, printed>>
                     ELSE \E connectOk \in BOOLEAN :
                          IF ~connectOk
                          THEN /\ Finish("DockerError")
                               /\ UNCHANGED <<engineBuild, buildLog, printed>>
                          ELSE /\ engineBuild' = <<Tags>>
                               /\ \E response \in {<<>>} \cup {<<log>> : log \in BuildLogs} :
                                    IF response = <<>>
                                    THEN /\ Finish("DockerError")
                                         /\ UNCHANGED <<buildLog, printed>>
                                    ELSE /\ buildLog' = response
                                         /\ printed' = PrintBuildOutput(response[1])
                                         /\ Finish("Ok")
    /\ UNCHANGED <<given, aspects, invocation, binary, matches, store, configured, cfgVars,
                   runVars, epVars>>

GenerateArchive ==
    /\ pc = "dispatch"
    /\ matches.subc = "generate-archive"
    /\ entered' = "generate-archive"
    /\ \E createOk \in BOOLEAN :
         IF ~createOk
         THEN /\ Finish("CouldNotFindCurrentBinary")
              /\ UNCHANGED <<archive, archiveFile, archiveResidue, archiveEnd, recipeMap,
                             dockerfile>>
         ELSE \E fault \in Faults(aspects) :
              LET r == GenerateArchiveImpl(aspects, fault)
              IN  /\ archiveFile' = "whatever.tar"
                  /\ archive' = r.entries
                  /\ archiveResidue' = r.residue
                  /\ archiveEnd' = r.finished
                  /\ recipeMap' = r.contents
                  /\ dockerfile' = r.dockerfile
                  /\ Finish(IF r.err # None THEN r.err ELSE "Ok")
    /\ UNCHANGED <<given, aspects, invocation, binary, matches, store, configured, cfgVars,
                   runVars, epVars, engineBuild, buildLog, printed>>

Config ==
    /\ pc = "dispatch"
    /\ matches.subc = "config"
    /\ entered' = "config"
    /\ \E ioOk \in BOOLEAN :
         LET r == ConfigResult(matches, store, ioOk)
         IN  /\ store' = r.store
             /\ configured' = IF r.err # None THEN configured
                              ELSE [configured EXCEPT
                                      ![Key(AppName, matches.profile)] =
                                          <<[locale |-> matches.locale,
                                             mounts |-> matches.mounts]>>]
             /\ Finish(IF r.err # None THEN r.err ELSE "Ok")
    /\ UNCHANGED <<given, aspects, invocation, binary, matches, cfgVars, runVars,
                   epVars, buildVars>>

(* the "entrypoint" match arm of execute_clap *)
EntrypointSubcommand ==
    /\ pc = "dispatch"
    /\ matches.subc = "entrypoint"
    /\ IF matches.command # <<>>
       THEN /\ epArgs' = matches.command
            /\ epVia' = "subcommand"
            /\ pc' = "ep_which"
            /\ UNCHANGED result
       ELSE /\ Finish("MissingEntrypointArgs")
            /\ UNCHANGED <<epArgs, epVia>>
    /\ UNCHANGED <<given, aspects, invocation, binary, matches, store, configured, cfgVars,
                   entered, runVars, epAspect, epStep, sudoPath, sudoArgs,
                   setupLog, sudoCall, childStatus, buildVars>>

(* the (_, _) match arm: print usage *)
Usage ==
    /\ pc = "dispatch"
    /\ matches.subc = None
    /\ printed' = Append(printed, "USAGE")
    /\ Finish("Ok")
    /\ UNCHANGED <<given, aspects, invocation, binary, matches, store, configured, cfgVars,
                   entered, runVars, epVars, archive, archiveFile, recipeMap,
                   archiveResidue, archiveEnd, dockerfile, engineBuild, buildLog>>

----------------------------------------------------------------------------
(* entrypoint(args), one step at a time *)

RECURSIVE NextPos(_, _, _)
NextPos(asps, a, s) ==
    IF a > Len(asps) THEN <<a, 1>>
    ELSE IF s <= Len(asps[a].entrypoint_fns) THEN <<a, s>>
         ELSE NextPos(asps, a + 1, 1)

(* a variant of EpWhich: the arguments are validated before anything else *)
EpWhich_ValidateFirst ==
    /\ pc = "ep_which"
    /\ IF Len(epArgs) < 2
       THEN /\ Finish("MissingEntrypointArgs")
            /\ UNCHANGED <<sudoPath, epAspect, epStep>>
       ELSE /\ sudoPath' = "/usr/bin/sudo"
            /\ epAspect' = NextPos(aspects, 1, 1)[1]
            /\ epStep' = NextPos(aspects, 1, 1)[2]
            /\ pc' = "ep_setup"
            /\ UNCHANGED result
    /\ UNCHANGED <<given, aspects, invocation, binary, matches, store, configured,
                   cfgVars, entered, runVars, epArgs, epVia, sudoArgs, setupLog,
                   sudoCall, childStatus, buildVars>>

(* let sudo_path = which("sudo")?; *)
EpWhich ==
    /\ pc = "ep_which"
    /\ \E found \in BOOLEAN :
         IF found
         THEN /\ sudoPath' = "/usr/bin/sudo"
              /\ epAspect' = NextPos(aspects, 1, 1)[1]
              /\ epStep' = NextPos(aspects, 1, 1)[2]
              /\ pc' = "ep_setup"
              /\ UNCHANGED result
         ELSE /\ Finish("WhichError")
              /\ UNCHANGED <<sudoPath, epAspect, epStep>>
    /\ UNCHANGED <<given, aspects, invocation, binary, matches, store, configured, cfgVars,
                   entered, runVars, epArgs, epVia, sudoArgs, setupLog, sudoCall,
                   childStatus, buildVars>>

(* a variant of EpSetupStep: the result of func is dropped, the loop goes on *)
EpSetupStep_IgnoreFailure ==
    /\ pc = "ep_setup"
    /\ epAspect <= Len(aspects)
    /\ LET aspect == aspects[epAspect]
           ep_fn  == aspect.entrypoint_fns[epStep]
           next   == NextPos(aspects, epAspect, epStep + 1)
       IN  /\ sudoArgs' = sudoArgs \o ep_fn.sudo_args
           /\ \E ok \in (IF ep_fn.fallible THEN BOOLEAN ELSE {TRUE}) :
                setupLog' = Append(setupLog,
                                   [aspect |-> epAspect, step |-> epStep,
                                    description |-> ep_fn.description,
                                    ok |-> ok])
           /\ epAspect' = next[1]
           /\ epStep' = next[2]
    /\ UNCHANGED <<given, aspects, invocation, binary, matches, store, configured, cfgVars,
                   entered, runVars, epArgs, epVia, sudoPath, sudoCall,
                   childStatus, buildVars, pc, result>>

(* one pass of the inner loop: append the step's sudo_args, call its func *)
EpSetupStep ==
    /\ pc = "ep_setup"
    /\ epAspect <= Len(aspects)
    /\ LET aspect == aspects[epAspect]
           ep_fn  == aspect.entrypoint_fns[epStep]
           next   == NextPos(aspects, epAspect, epStep + 1)
       IN  /\ sudoArgs' = sudoArgs \o ep_fn.sudo_args
           /\ \E ok \in (IF ep_fn.fallible THEN BOOLEAN ELSE {TRUE}) :
                /\ setupLog' = Append(setupLog,
                                      [aspect |-> epAspect, step |-> epStep,
                                       description |-> ep_fn.description,
                                       ok |-> ok])
                /\ IF ok
                   THEN /\ epAspect' = next[1]
                        /\ epStep' = next[2]
                        /\ UNCHANGED <<pc, result>>
                   ELSE /\ Finish("MissingUser")
                        /\ UNCHANGED <<epAspect, epStep>>
    /\ UNCHANGED <<given, aspects, invocation, binary, matches, store, configured, cfgVars,
                   entered, runVars, epArgs, epVia, sudoPath, sudoCall,
                   childStatus, buildVars>>

MissingArgs(args) == Len(args) < 2

(* a variant of EpValidate: sudo is looked up once the arguments are valid *)
EpValidate_WhichAfter ==
    /\ pc = "ep_setup"
    /\ epAspect > Len(aspects)
    /\ IF MissingArgs(epArgs)
       THEN Finish("MissingEntrypointArgs")
       ELSE \E found \in BOOLEAN :
              IF found
              THEN /\ pc' = "ep_exec"
                   /\ UNCHANGED result
              ELSE Finish("WhichError")
    /\ UNCHANGED <<given, aspects, invocation, binary, matches, store, configured,
                   cfgVars, entered, runVars, epVars, buildVars>>

(* if args.len() < 2 { return Err(Error::MissingEntrypointArgs); } *)
EpValidate ==
    /\ pc = "ep_setup"
    /\ epAspect > Len(aspects)
    /\ IF MissingArgs(epArgs)
       THEN Finish("MissingEntrypointArgs")
       ELSE /\ pc' = "ep_exec"
            /\ UNCHANGED result
    /\ UNCHANGED <<given, aspects, invocation, binary, matches, store, configured, cfgVars,
                   entered, runVars, epVars, buildVars>>

SudoCommand(sudo_args, args) ==
    sudo_args \o <<"--">> \o SubSeq(args, 2, Len(args))

StatusResult(status) == "Ok"

(* process::Command::new(sudo_path)...status()?; Ok(()) *)
EpHandOff ==
    /\ pc = "ep_exec"
    /\ \E spawned \in BOOLEAN :
         IF spawned
         THEN /\ sudoCall' = Append(sudoCall, SudoCommand(sudoArgs, epArgs))
              /\ \E status \in ExitStatuses :
                   /\ childStatus' = <<status>>
                   /\ Finish(StatusResult(status))
         ELSE /\ Finish("CouldNotFindCurrentBinary")
              /\ UNCHANGED <<sudoCall, childStatus>>
    /\ UNCHANGED <<given, aspects, invocation, binary, matches, store, configured, cfgVars,
                   entered, runVars, epArgs, epVia, epAspect, epStep, sudoPath,
                   sudoArgs, setupLog, buildVars>>

(* the next process: a fresh manager from the same main(), the same store *)
NextInvocation ==
    /\ pc = "done"
    /\ invocation < MaxInvocations
    /\ invocation' = invocation + 1
    /\ aspects' = default_debian(given)
    /\ pc' = "start"
    /\ binary' = None
    /\ matches' = NoMatches
    /\ result' = None
    /\ loaded' = FALSE
    /\ merged' = <<>>
    /\ entered' = None
    /\ asked' = <<>>
    /\ engineRun' = <<>>
    /\ epArgs' = <<>>
    /\ epVia' = None
    /\ epAspect' = 0
    /\ epStep' = 0
    /\ sudoPath' = None
    /\ sudoArgs' = <<>>
    /\ setupLog' = <<>>
    /\ sudoCall' = <<>>
    /\ childStatus' = <<>>
    /\ archive' = <<>>
    /\ archiveFile' = None
    /\ recipeMap' = EmptyMap
    /\ dockerfile' = ""
    /\ archiveResidue' = <<>>
    /\ archiveEnd' = FALSE
    /\ engineBuild' = <<>>
    /\ buildLog' = <<>>
    /\ printed' = <<>>
    /\ UNCHANGED <<given, store, configured>>

Next ==
    \/ Execute
    \/ ExecuteClapParse
    \/ ExecuteClapLoad
    \/ Run
    \/ Build
    \/ GenerateArchive
    \/ Config
    \/ EntrypointSubcommand
    \/ Usage
    \/ EpWhich
    \/ EpSetupStep
    \/ EpValidate
    \/ EpHandOff
    \/ NextInvocation

Spec == Init /\ [][Next]_vars

----------------------------------------------------------------------------
(* Vocabulary of the properties *)

EntrypointLogicRan == epVia # None

HasSetupSteps(asps) == \E i \in 1..Len(asps) : Len(asps[i].entrypoint_fns) > 0

OccursAt(s, grp, k) ==
    /\ k >= 1
    /\ k + Len(grp) - 1 <= Len(s)
    /\ SubSeq(s, k, k + Len(grp) - 1) = grp

Occurs(s, grp) == \E k \in 1..Len(s) : OccursAt(s, grp, k)

RunHandedOver == entered = "run" /\ Len(engineRun) = 1

AllRunArgs(asps) == Flatten([i \in 1..Len(asps) |-> asps[i].run_args])

AllSnippets(asps) == Flatten([i \in 1..Len(asps) |-> asps[i].dockerfile_snippets])

RECURSIVE JoinLines(_)
JoinLines(snippets) ==
    IF snippets = <<>> THEN ""
    ELSE IF Len(snippets) = 1 THEN snippets[1].content
         ELSE snippets[1].content \o NL \o JoinLines(Tail(snippets))

AtPriority(asps, p) == SelectSeq(AllSnippets(asps), LAMBDA sn : sn.order = p)

Priorities(asps) ==
    {AllSnippets(asps)[i].order : i \in 1..Len(AllSnippets(asps))}

(* the entries of the priorities ps, the largest priority last *)
RECURSIVE AscendingRecipe(_, _)
AscendingRecipe(asps, ps) ==
    IF ps = {} THEN ""
    ELSE LET top == CHOOSE p \in ps : \A q \in ps : q <= p
         IN  AscendingRecipe(asps, ps \ {top})
             \o JoinLines(AtPriority(asps, top)) \o NL \o NL

(* generate_archive_impl got past its loop over the aspects and composed   *)
(* the recipe text (never empty: Debian always contributes)                *)
RecipeComposed == archiveFile # None /\ pc = "done" /\ dockerfile # ""

----------------------------------------------------------------------------
(* C1: whenever the entrypoint logic runs and the running binary's path is *)
(* not the sentinel path, no privileged setup step is executed and the     *)
(* operation ends with the error NotInEntrypointMode.                      *)
C1_EntrypointGuard ==
    (EntrypointLogicRan /\ binary # SENTINEL) =>
        /\ setupLog = <<>>
        /\ (pc = "done" => result = "NotInEntrypointMode")

(* C2 as claimed: in run, the implicit entrypoint flags are in the flag     *)
(* sequence if and only if some aspect declares privileged setup steps,    *)
(* and when they are present they come directly after --rm, before every   *)
(* aspect's flags.                                                         *)
C2_EntrypointFlagsFirst ==
    RunHandedOver =>
        /\ HasSetupSteps(aspects) <=> Occurs(engineRun[1], EntrypointFlags(binary))
        /\ HasSetupSteps(aspects) =>
               OccursAt(engineRun[1], EntrypointFlags(binary), 2)

FirstDeclaring(asps) ==
    CHOOSE i \in 1..Len(asps) :
        /\ Len(asps[i].entrypoint_fns) > 0
        /\ \A j \in 1..(i - 1) : Len(asps[j].entrypoint_fns) = 0

(* C2 as amended: in run, the implicit entrypoint flags are in the flag    *)
(* sequence if and only if some aspect declares privileged setup steps,    *)
(* and when they are present they come right after the flags of the        *)
(* aspects listed before the first aspect that declares such steps, so     *)
(* before every flag of that aspect and of the aspects after it.           *)
C2_EntrypointFlagsBeforeDeclarer ==
    RunHandedOver =>
        /\ HasSetupSteps(aspects) <=> Occurs(engineRun[1], EntrypointFlags(binary))
        /\ HasSetupSteps(aspects) =>
               LET before == SubSeq(aspects, 1, FirstDeclaring(aspects) - 1)
               IN  /\ SubSeq(engineRun[1], 1, 1 + Len(AllRunArgs(before)))
                          = <<"--rm">> \o AllRunArgs(before)
                   /\ OccursAt(engineRun[1], EntrypointFlags(binary),
                               2 + Len(AllRunArgs(before)))

C2_Witness ==
    /\ RunHandedOver
    /\ given = <<Foo, CurrentUser>>
    /\ merged = <<EmptyCfg>>
    /\ engineRun[1] = <<"--rm", "--foo", "bar",
                        "-v", "/usr/bin/app:/entrypoint", "--entrypoint", "/entrypoint",
                        "-e", "USER", "app:v1", "cmd", "--flag">>

(* C3: when no aspect declares privileged setup steps, run hands the       *)
(* engine exactly --rm, the runtime flags of the aspects in list order,    *)
(* the first image tag, and the trailing arguments in their order.         *)
C3_RunFlagSequence ==
    /\ (RunHandedOver /\ ~HasSetupSteps(aspects)) =>
           engineRun[1] =
               <<"--rm">> \o AllRunArgs(aspects) \o <<Tags[1]>> \o TrailingArgs
    /\ (entered = "run" /\ result = "Ok") => Len(engineRun) = 1

C3_Witness ==
    /\ RunHandedOver
    /\ given = <<Foo>>
    /\ merged = <<EmptyCfg>>
    /\ engineRun[1] = <<"--rm", "--foo", "bar", "app:v1", "cmd", "--flag">>

(* C4: the text accumulated for a priority is the texts of the snippets of *)
(* that priority, in aspect-list order and, within one aspect, in the      *)
(* order returned, each separated from the next by exactly one line break; *)
(* snippets of other priorities do not change it.                          *)
C4_StableTies ==
    RecipeComposed =>
        /\ DOMAIN recipeMap = Priorities(aspects)
        /\ \A p \in DOMAIN recipeMap :
               recipeMap[p] = JoinLines(AtPriority(aspects, p))

C4_Witness ==
    /\ RecipeComposed
    /\ given = <<Foo, CurrentUser>>
    /\ recipeMap[2] = DebianBasePackages \o "\nRUN groupadd\nRUN useradd"
    /\ recipeMap[5] = "X"

(* C5: the recipe text is the per-priority texts in strictly ascending     *)
(* priority, each followed by a blank line, whatever order the aspects     *)
(* declared their priorities in.                                           *)
C5_AscendingRecipe ==
    (RecipeComposed /\ result = "Ok") =>
        /\ dockerfile = AscendingRecipe(aspects, Priorities(aspects))
        /\ archive[Len(archive)] = Entry("Dockerfile", dockerfile)

C5_Witness ==
    /\ RecipeComposed
    /\ result = "Ok"
    /\ given = <<Foo, Net>>
    /\ merged = <<EmptyCfg>>
    /\ dockerfile = "FROM debian:buster\n\nZ\n\n" \o DebianBasePackages \o "\n\n"
                    \o DebianLanguagePacks \o "\n\n"
                    \o "X\nY\n\n"


(* every privileged setup step of the aspect list, aspect by aspect *)
AllSetupSteps(asps) ==
    Flatten([i \in 1..Len(asps) |->
               [j \in 1..Len(asps[i].entrypoint_fns) |->
                  [aspect |-> i, step |-> j,
                   description |-> asps[i].entrypoint_fns[j].description,
                   ok |-> TRUE]]])

(* C6: when the entrypoint logic ends with MissingEntrypointArgs, every    *)
(* privileged setup step of every aspect has been executed before, in      *)
(* aspect-list order and then step order; and an argument vector with      *)
(* nothing beyond the program name ends so once sudo is found and no step  *)
(* fails.                                                                  *)
C6_SetupBeforeValidation ==
    /\ result = "MissingEntrypointArgs" => setupLog = AllSetupSteps(aspects)
    /\ (/\ EntrypointLogicRan
        /\ pc = "done"
        /\ Len(epArgs) <= 1
        /\ result \notin {"WhichError", "MissingUser"})
           => result = "MissingEntrypointArgs"

C6_Witness ==
    /\ result = "MissingEntrypointArgs"
    /\ epArgs = <<SENTINEL>>
    /\ Len(setupLog) = 4

(* C7: when the hand-off has run the downstream command and it finished    *)
(* with status s, the outcome of the entrypoint operation reflects s: it   *)
(* is Ok only if s is zero.                                                *)
C7_ExitStatusPropagated ==
    (pc = "done" /\ childStatus # <<>>) =>
        (result = "Ok" <=> childStatus[1] = 0)

(* the record persisted for the invocation's (name, profile) when          *)
(* load_config read it                                                     *)
PersistedAtLoad ==
    IF store[Key(AppName, matches.profile)] = <<>> THEN EmptyCfg
    ELSE store[Key(AppName, matches.profile)][1]

NoDuplicates(s) == \A i, j \in 1..Len(s) : s[i] = s[j] => i = j

Elements(s) == {s[i] : i \in 1..Len(s)}

(* s keeps the elements of t that are in S, in t's order *)
RestrictedTo(t, S) == SelectSeq(t, LAMBDA x : x \in S)

BaseAspects == <<ProfileAspect(AppName, ContainerPaths)>> \o default_debian(given)

(* C8: after load_config, for the single-valued option the merged          *)
(* configuration holds the CLI's value when the CLI gave one and the       *)
(* persisted value otherwise; for the append-only option it holds the      *)
(* CLI's values followed by the persisted values not among them, without   *)
(* duplicates; and the aspects derived from it are appended to the list.   *)
C8_MergePrecedence ==
    (loaded /\ pc = "dispatch") =>
        LET m == merged[1]
            v == matches
            p == PersistedAtLoad
        IN  /\ m.locale = (IF v.locale # None THEN v.locale ELSE p.locale)
            /\ NoDuplicates(m.mounts)
            /\ Elements(m.mounts) = Elements(v.mounts) \cup Elements(p.mounts)
            /\ SubSeq(m.mounts, 1, Len(v.mounts)) = v.mounts
            /\ SubSeq(m.mounts, Len(v.mounts) + 1, Len(m.mounts))
                   = RestrictedTo(p.mounts, Elements(p.mounts) \ Elements(v.mounts))
            /\ aspects = BaseAspects \o GetAspects(m)

C8_Witness ==
    /\ loaded
    /\ pc = "dispatch"
    /\ matches.locale = "en_US"
    /\ PersistedAtLoad = [locale |-> "fr_FR", mounts |-> <<"/b:/b", "/a:/a">>]
    /\ merged[1] = [locale |-> "en_US", mounts |-> <<"/a:/a", "/b:/b">>]

(* C9: once a config invocation has persisted a value for an option under  *)
(* (name, profile), a later run for the same (name, profile) that gives no *)
(* CLI value for the option loads that value, and the aspect derived from  *)
(* it is in the aspect list whose flags are collected.                     *)
C9_PersistThenApply ==
    (entered = "run" /\ pc = "done"
       /\ configured[Key(AppName, matches.profile)] # <<>>) =>
        LET p == configured[Key(AppName, matches.profile)][1]
        IN  /\ (matches.locale = None /\ p.locale # None) =>
                  /\ merged[1].locale = p.locale
                  /\ Contains(aspects, LocaleAspect(p.locale))
                  /\ result = "Ok" =>
                        /\ Contains(asked, "Locale")
                        /\ Occurs(engineRun[1], LocaleAspect(p.locale).run_args)
            /\ (matches.mounts = <<>> /\ p.mounts # <<>>) =>
                  /\ merged[1].mounts = p.mounts
                  /\ Contains(aspects, MountsAspect(p.mounts))
                  /\ result = "Ok" =>
                        /\ Contains(asked, "Mounts")
                        /\ Occurs(engineRun[1], MountsAspect(p.mounts).run_args)

C9_Witness ==
    /\ entered = "run"
    /\ result = "Ok"
    /\ invocation = 2
    /\ matches.profile = "work"
    /\ matches.locale = None
    /\ configured[Key(AppName, "work")] # <<>>
    /\ configured[Key(AppName, "work")][1].locale = "en_US"
    /\ Occurs(engineRun[1], <<"-e", "LANG=en_US">>)

(* C10: the body of run, build or config is entered only after the         *)
(* persisted configuration has been loaded and merged and the derived      *)
(* aspects appended; when loading or merging fails the body is never       *)
(* entered and the error is the result.                                    *)
C10_LoadBeforeBody ==
    /\ entered \in {"run", "build", "config"} =>
           /\ loaded
           /\ merged # <<>>
           /\ aspects = BaseAspects \o GetAspects(merged[1])
    /\ (pc = "done" /\ matches.subc \in {"run", "build", "config"} /\ ~loaded) =>
           /\ entered = None
           /\ result \in {"FailedToLoadConfig", "InvalidLocale"}
           /\ engineRun = <<>>
           /\ archiveFile = None
           /\ engineBuild = <<>>

C10_Witness ==
    /\ pc = "done"
    /\ matches.subc = "run"
    /\ matches.locale = "bogus"
    /\ result = "InvalidLocale"
    /\ entered = None


(* the first aspect whose flag collection can fail *)
NamesUpTo(asps, k) == [i \in 1..k |-> asps[i].name]

(* C11: when the flag collection of an aspect fails during run, run        *)
(* returns that error, docker::run is never called, and the aspects after  *)
(* the failing one are not asked for their flags; a run that succeeds has  *)
(* asked every aspect.                                                     *)
C11_FailFastRun ==
    (entered = "run" /\ pc = "done") =>
        /\ result \in {"Ok", "MissingDirectory", "CouldNotFindCurrentBinary"}
        /\ result = "CouldNotFindCurrentBinary" =>
              /\ engineRun = <<>>
              /\ Len(asked) < Len(aspects)
              /\ asked = NamesUpTo(aspects, Len(asked))
              /\ Len(aspects[Len(asked) + 1].entrypoint_fns) > 0
        /\ result = "MissingDirectory" =>
              /\ engineRun = <<>>
              /\ asked # <<>>
              /\ Len(asked) <= Len(aspects)
              /\ asked = NamesUpTo(aspects, Len(asked))
              /\ aspects[Len(asked)].fallible
        /\ result = "Ok" =>
              /\ Len(engineRun) = 1
              /\ asked = NamesUpTo(aspects, Len(aspects))

C11_Witness ==
    /\ entered = "run"
    /\ pc = "done"
    /\ given = <<Net, Foo>>
    /\ result = "MissingDirectory"
    /\ asked = <<"Profile", "Debian", "Net">>
    /\ engineRun = <<>>


(* the process took the ordinary dispatch and clap matched no subcommand *)
NoSubcommand == binary \notin {None, SENTINEL} /\ pc \in {"dispatch", "done"}
                /\ matches.subc = None

(* C13: an invocation in Normal state without a subcommand prints the      *)
(* usage and returns Ok; it loads no configuration, calls neither          *)
(* docker::run nor the image build, writes no archive and runs no          *)
(* privileged setup step.                                                  *)
C13_MissingSubcommand ==
    NoSubcommand =>
        /\ ~loaded
        /\ merged = <<>>
        /\ aspects = BaseAspects
        /\ entered = None
        /\ engineRun = <<>>
        /\ engineBuild = <<>>
        /\ archiveFile = None
        /\ archive = <<>>
        /\ ~EntrypointLogicRan
        /\ setupLog = <<>>
        /\ sudoCall = <<>>
        /\ pc = "done" => (result = "Ok" /\ printed = <<"USAGE">>)

C13_Witness ==
    /\ NoSubcommand
    /\ pc = "done"
    /\ result = "Ok"
    /\ printed = <<"USAGE">>
    /\ store[Key(AppName, None)] # <<>>


(* C14 as claimed: the escalator is resolved only after every privileged   *)
(* setup step has run and the argument vector has been validated, so a     *)
(* WhichError is returned only when every setup step has been executed and *)
(* the arguments were found valid.                                         *)
C14_EscalatorResolvedLast ==
    result = "WhichError" =>
        /\ setupLog = AllSetupSteps(aspects)
        /\ ~MissingArgs(epArgs)

(* C14 as amended: the escalator is resolved as the first action of the    *)
(* entrypoint logic, before any privileged setup step runs and before the  *)
(* argument vector is validated, so a WhichError is returned only when no  *)
(* setup step has been executed and nothing has been handed to sudo, and   *)
(* no setup step runs unless the escalator has been resolved.              *)
C14_EscalatorResolvedFirst ==
    /\ result = "WhichError" =>
           /\ pc = "done"
           /\ setupLog = <<>>
           /\ sudoArgs = <<>>
           /\ sudoCall = <<>>
    /\ setupLog # <<>> => sudoPath # None
    /\ pc \in {"ep_setup", "ep_exec"} => sudoPath # None
    /\ result = "MissingEntrypointArgs" => sudoPath # None

C14_Witness ==
    /\ result = "WhichError"
    /\ epVia = "sentinel"
    /\ HasSetupSteps(aspects)
    /\ ~MissingArgs(epArgs)
    /\ setupLog = <<>>


(* the elevation arguments of every setup step, aspect by aspect *)
AllSudoArgs(asps) ==
    Flatten([i \in 1..Len(asps) |->
               Flatten([j \in 1..Len(asps[i].entrypoint_fns) |->
                          asps[i].entrypoint_fns[j].sudo_args])])

(* the complete command the user supplied: argv after the program name on  *)
(* the sentinel path, every value of <command...> on the subcommand path   *)
UserCommand ==
    IF epVia = "sentinel" THEN Tail(epArgs) ELSE matches.command

(* C15: whenever the entrypoint logic invokes sudo, the argument vector is *)
(* the elevation arguments of all setup steps (aspect-list order, then     *)
(* step order), then "--", then the complete user-supplied command, on the *)
(* sentinel path and on the entrypoint subcommand path alike; a non-empty  *)
(* command given to the subcommand is never rejected as missing.           *)
C15_EscalatorArguments ==
    /\ sudoCall # <<>> =>
           sudoCall[1] = AllSudoArgs(aspects) \o <<"--">> \o UserCommand
    /\ (epVia = "subcommand" /\ matches.command # <<>>) =>
           result # "MissingEntrypointArgs"


(* C16: a privileged setup step that fails ends the entrypoint logic with  *)
(* that step's error: the failed step is the last one executed, no later   *)
(* step of the same or of a later aspect runs, and sudo is never invoked;  *)
(* the error is returned only for a step that failed.                      *)
C16_SetupFailureFatal ==
    /\ \A k \in 1..Len(setupLog) :
          ~setupLog[k].ok =>
              /\ k = Len(setupLog)
              /\ pc = "done"
              /\ result = "MissingUser"
              /\ sudoCall = <<>>
              /\ childStatus = <<>>
    /\ result = "MissingUser" =>
          /\ setupLog # <<>>
          /\ ~setupLog[Len(setupLog)].ok

C16_Witness ==
    /\ result = "MissingUser"
    /\ Len(AllSetupSteps(aspects)) = 4
    /\ Len(setupLog) = 1
    /\ ~setupLog[1].ok
    /\ ~MissingArgs(epArgs)
    /\ sudoCall = <<>>


(* the context files of the aspect list as archive entries, aspect by aspect *)
AllFileEntries(asps) ==
    Flatten([i \in 1..Len(asps) |->
               [j \in 1..Len(asps[i].container_files) |->
                  Entry(asps[i].container_files[j].container_path,
                        asps[i].container_files[j].contents)]])

ArchiveProduced == archiveFile # None /\ pc = "done"

(* the append that failed was the Dockerfile's *)
DockerfileFailed ==
    archiveResidue # <<>> /\ archiveResidue[1].path = "Dockerfile"

(* C17: in every build context produced by build or generate-archive the   *)
(* aspects' context files are written in aspect-list order and the         *)
(* Dockerfile entry is written once, as the last entry.  When writing an   *)
(* entry fails, the operation ends with FailedToAddFileToArchive and the   *)
(* file holds the entries before it, in order, and what the failed append  *)
(* wrote; when the failed entry is one before the Dockerfile, nothing of   *)
(* the Dockerfile entry is written.                                        *)
C17_ArchiveEntryOrder ==
    ArchiveProduced =>
        LET files == AllFileEntries(aspects)
            recipes == {k \in 1..Len(archive) : archive[k].path = "Dockerfile"}
        IN  /\ entered \in {"build", "generate-archive"}
            /\ result # "FailedToAddFileToArchive" =>
                  /\ archive = Append(files, Entry("Dockerfile", dockerfile))
                  /\ recipes = {Len(archive)}
                  /\ archiveResidue = <<>>
            /\ result = "FailedToAddFileToArchive" =>
                  /\ Len(archive) <= Len(files) + 1
                  /\ SubSeq(archive, 1, Len(archive) - Cardinality(recipes))
                        = SubSeq(files, 1, Len(archive) - Cardinality(recipes))
                  /\ ~DockerfileFailed =>
                        /\ recipes = {}
                        /\ Len(archive) <= Len(files)
                        /\ archiveResidue # <<>> =>
                              /\ Len(archive) - (IF archiveResidue[1].data THEN 1 ELSE 0)
                                    < Len(files)
                              /\ archiveResidue[1].path =
                                    files[Len(archive) + 1
                                          - (IF archiveResidue[1].data THEN 1 ELSE 0)].path
                  /\ DockerfileFailed =>
                        /\ recipes = (IF archiveResidue[1].data
                                      THEN {Len(files) + 1} ELSE {})
                        /\ Len(archive) = Len(files) + Cardinality(recipes)
                        /\ recipes # {} =>
                              archive[Len(archive)] = Entry("Dockerfile", dockerfile)

C17_Witness ==
    /\ ArchiveProduced
    /\ result = "Ok"
    /\ given = <<Net, CurrentUser>>
    /\ [k \in 1..Len(archive) |-> archive[k].path] =
           <<"pulse-client.conf", "sudoers.d/user", "Dockerfile">>


(* C18: an I/O failure while creating or writing the build context in      *)
(* build or generate-archive never ends the operation with                 *)
(* CouldNotFindCurrentBinary (it is a FailedToAddFileToArchive), and       *)
(* CouldNotFindCurrentBinary is returned only when the path of the running *)
(* binary could not be resolved.                                           *)
C18_ArchiveIoErrorKind ==
    /\ (entered \in {"build", "generate-archive"} /\ pc = "done") =>
           result # "CouldNotFindCurrentBinary"
    /\ result = "CouldNotFindCurrentBinary" => (binary = None \/ entered = "run")


(* the lines of a build log that were read and parsed as BuildOutput *)
ParsedLines(lines) ==
    LET parsed(l) == l.kind = "ok" IN SelectSeq(lines, parsed)

(* C19: once the engine has returned the build's log lines, build prints   *)
(* the stream of every line that was read and parsed, in the order         *)
(* received, drops every other line, and returns Ok: a bad line neither    *)
(* makes build fail nor keeps a later good line from being printed.        *)
C19_BuildLogHandling ==
    buildLog # <<>> =>
        /\ entered = "build"
        /\ pc = "done"
        /\ result = "Ok"
        /\ engineBuild = <<Tags>>
        /\ printed = [k \in 1..Len(ParsedLines(buildLog[1])) |->
                        ParsedLines(buildLog[1])[k].stream]

C19_Witness ==
    /\ buildLog # <<>>
    /\ result = "Ok"
    /\ Len(buildLog[1]) = 3
    /\ buildLog[1][2].kind = "unparseable"
    /\ printed = <<"Step 1/2\n", "Step 2/2\n">>


(* the positions at which a group of flags occurs in a flag sequence *)
Occurrences(s, grp) == {k \in 1..Len(s) : OccursAt(s, grp, k)}

(* C20: in one run the entrypoint flag group                                *)
(* (-v <binary>:/entrypoint --entrypoint /entrypoint) occurs at most once   *)
(* in the flag sequence handed to the engine, however many aspects of the   *)
(* list declare privileged setup steps.                                     *)
C20_SingleInjection ==
    RunHandedOver =>
        Cardinality(Occurrences(engineRun[1], EntrypointFlags(binary))) <= 1

====
